---- MODULE Spec2Model ----
(***************************************************************************)
(* Model of auggie_mcp_server.py: the two MCP tools ask_question and       *)
(* implement, the process runner _run, the git adapter _git, the dry-run   *)
(* sandbox settings and the dependency preflight.                          *)
(*                                                                         *)
(* In Spec one tool call is in flight at a time.  A call advances from one *)
(* await of the source to the next; pc names the await the call is         *)
(* suspended at.  SpecConc interleaves several implement calls.            *)
(* External programs (node, auggie, git) are opaque: their exit code and   *)
(* output are inputs drawn from small sets, and git's effect on the        *)
(* working tree is modelled by its documented behaviour.                   *)
(***************************************************************************)
EXTENDS Integers, Sequences, FiniteSets, TLC

VARIABLES
    server,         \* "running" | "exited": the server process (sys.exit)
    environ,        \* os.environ["AUGMENT_CACHE_DIR"]: NoDir or a directory
    branch,         \* workspace: the checked-out branch
    head,           \* workspace: number of commits made on top of the start
    wt,             \* workspace: path -> porcelain status code (<<>> = clean)
    inHead,         \* workspace: the paths that the HEAD commit contains
    pc,             \* the await the call in flight is suspended at, or "idle"
    call,           \* the parameters of the call in flight (or of the last one)
    spawned,        \* the processes this call has spawned, in order
    proc,           \* the process most recently spawned by _run, and its wait
    code,           \* <<exit code of the agent run>>, <<>> before it has ended
    out,            \* stdout of the agent run
    files_changed,  \* implement: the parsed list of paths
    diff,           \* implement: length of the text `git diff` printed
    committed,      \* implement: local variable committed
    commit_sha,     \* implement: local variable commit_sha
    commit_message, \* implement: local variable commit_message
    mutated,        \* the agent run of this call changed the working tree
    pf,             \* what this call's preflight observed
    before,         \* the workspace as it was when the call was dispatched
    result,         \* how the last call ended
    settings,       \* workspace: <<content of the settings artifact>>, <<>> if absent
    preflighted,    \* the preflight of an earlier call has passed
    tasks           \* concurrent implement calls: parameters and position of each

vars == <<server, environ, branch, head, wt, inHead, pc, call, spawned, proc,
          code, out, files_changed, diff, committed, commit_sha, commit_message,
          mutated, pf, before, result, settings, preflighted, tasks>>

wsvars == <<branch, head, wt, inHead, settings>>
locals == <<code, out, files_changed, diff, committed, commit_sha, commit_message>>

(***************************************************************************)
(* Bounds                                                                  *)
(***************************************************************************)
MaxTextLen == 3     \* longest stdout / stderr text of an ask_question agent run
MaxSummaryLen == 1  \* longest stdout / stderr text of an implement agent run
MaxCommits == 1     \* commits a workspace may receive in one run
MaxDiffOver == 1    \* how far past the cap a diff length is drawn
MaxTasks == 2       \* implement calls in flight at the same time
MaxPromptOver == 2  \* how far past 72 characters a prompt's length is drawn

(***************************************************************************)
(* Program constants                                                       *)
(***************************************************************************)
DEFAULT_TIMEOUT == 120
IMPLEMENT_TIMEOUT == 300
GIT_TIMEOUT == 60
PREFLIGHT_TIMEOUT == 5
DiffCap == 200000
MinNodeMajor == 18

None == "None"
NoDir == <<>>

(***************************************************************************)
(* Text: a sequence of characters.  " " and "\n" are whitespace.           *)
(***************************************************************************)
Spaces == {" ", "\n"}
IsSpace(c) == c \in Spaces

RECURSIVE lstrip(_)
lstrip(s) == IF s # <<>> /\ IsSpace(Head(s)) THEN lstrip(Tail(s)) ELSE s

RECURSIVE rstrip(_)
rstrip(s) ==
    IF s # <<>> /\ IsSpace(s[Len(s)]) THEN rstrip(SubSeq(s, 1, Len(s) - 1)) ELSE s

\* str.strip()
strip(s) == rstrip(lstrip(s))

RECURSIVE SeqsUpTo(_, _)
SeqsUpTo(S, n) ==
    IF n = 0 THEN {<<>>}
    ELSE LET shorter == SeqsUpTo(S, n - 1)
         IN  shorter \cup {Append(s, c) : s \in {t \in shorter : Len(t) = n - 1}, c \in S}

Texts == SeqsUpTo({" ", "a"}, MaxTextLen)
SummaryTexts == SeqsUpTo({" ", "a"}, MaxSummaryLen)

\* err.strip() or out.strip()
ErrOrOut(err, o) == IF strip(err) # <<>> THEN strip(err) ELSE strip(o)

(***************************************************************************)
(* The workspace as git sees it.  A path's status code is the two          *)
(* characters of `git status --porcelain` (index column, worktree column); *)
(* <<>> means the path has no pending change.                              *)
(***************************************************************************)
TrackedFile == "a.py"
NewFile == "n.txt"
ArtifactFile == ".augment/.mcp-temp/settings.json"
ArtifactDir == ".augment/"
Paths == {TrackedFile, NewFile, ArtifactFile}
MainBranch == "main"

Clean == <<>>
Untracked == <<"?", "?">>
Unstaged == {<<" ", "M">>, <<" ", "T">>}

\* What an agent run may do to the working tree.
AgentEffects == {"none", "modify", "typechange", "create"}

AgentApply(e, w, h) ==
    CASE e = "modify" /\ TrackedFile \in h /\ w[TrackedFile] = Clean
            -> [w EXCEPT ![TrackedFile] = <<" ", "M">>]
      [] e = "typechange" /\ TrackedFile \in h /\ w[TrackedFile] = Clean
            -> [w EXCEPT ![TrackedFile] = <<" ", "T">>]
      [] e = "create" /\ NewFile \notin h /\ w[NewFile] = Clean
            -> [w EXCEPT ![NewFile] = Untracked]
      [] OTHER -> w

\* p.write_text(...) of the settings artifact: a new file is untracked, a
\* file already present is rewritten with the same bytes.
WriteArtifact(w, h) ==
    IF ArtifactFile \notin h /\ w[ArtifactFile] = Clean
    THEN [w EXCEPT ![ArtifactFile] = Untracked]
    ELSE w

\* git add -A
StageAll(w) ==
    [p \in Paths |->
        CASE w[p] = Untracked -> <<"A", " ">>
          [] w[p] \in Unstaged -> <<w[p][2], " ">>
          [] OTHER -> w[p]]

HasStaged(w) == \E p \in Paths : w[p] # Clean /\ w[p][1] \notin {" ", "?"}

\* git commit: the staged paths enter HEAD and become clean.
CommitTree(w) == [p \in Paths |-> IF w[p] # Clean /\ w[p][1] \notin {" ", "?"} THEN Clean ELSE w[p]]
CommitHead(w, h) == h \cup {p \in Paths : w[p] = <<"A", " ">>}

\* One line of `git status --porcelain`: XY, a space, the path.  An
\* untracked directory is listed as the directory.
StatusLine(w, p) ==
    w[p] \o <<" ">> \o <<IF p = ArtifactFile /\ w[p] = Untracked THEN ArtifactDir ELSE p>>

\* git lists the tracked entries by path, then the untracked ones by path.
PathOrder == <<ArtifactFile, TrackedFile, NewFile>>

RECURSIVE LinesOf(_, _, _)
LinesOf(w, ps, untracked) ==
    IF ps = <<>> THEN <<>>
    ELSE (IF w[Head(ps)] # Clean /\ ((w[Head(ps)] = Untracked) = untracked)
          THEN <<StatusLine(w, Head(ps))>> ELSE <<>>)
         \o LinesOf(w, Tail(ps), untracked)

GitStatus(w) == LinesOf(w, PathOrder, FALSE) \o LinesOf(w, PathOrder, TRUE)

\* `git diff` prints text exactly when a tracked path has an unstaged change;
\* the text is represented by its length.
HasUnstaged(w) == \E p \in Paths : w[p] \in Unstaged
DiffLengths == {1} \cup (DiffCap .. (DiffCap + MaxDiffOver))

(***************************************************************************)
(* implement, lines 173-178: the parse of the status text.  A line is a    *)
(* sequence whose elements are single characters; a path is carried as one *)
(* element, standing for a run of characters that are neither whitespace   *)
(* nor one of A, M, D, R, ?.                                               *)
(***************************************************************************)
StatusChars == {"A", "M", "D", "R", "?"}

RECURSIVE Span(_, _)
\* the length of the longest prefix of s whose elements are in S
Span(s, S) == IF s # <<>> /\ Head(s) \in S THEN 1 + Span(Tail(s), S) ELSE 0

Drop(s, n) == SubSeq(s, n + 1, Len(s))

\* re.match(r"^\s*[AMDR?]{1,2}\s+(.*)$", line): <<TRUE, group 1>> or <<FALSE>>.
\* The three classes are disjoint and .* takes whatever is left, so the
\* greedy match is the only one: all leading whitespace, the whole run of
\* status characters (which must be 1 or 2 long), all whitespace after it.
ReMatch(line) ==
    LET s1 == Drop(line, Span(line, Spaces))
        k  == Span(s1, StatusChars)
        s2 == Drop(s1, k)
        j  == Span(s2, Spaces)
    IN  IF k \in {1, 2} /\ j >= 1 THEN <<TRUE, Drop(s2, j)>> ELSE <<FALSE>>

RECURSIVE ParseStatus(_)
\* for line in status.splitlines(): m = re.match(...); if m: append(m.group(1))
ParseStatus(lines) ==
    IF lines = <<>> THEN <<>>
    ELSE LET m == ReMatch(Head(lines))
         IN  (IF m[1] THEN <<m[2]>> ELSE <<>>) \o ParseStatus(Tail(lines))

(***************************************************************************)
(* implement, lines 184-201                                                *)
(***************************************************************************)
\* line 186: if not dry_run and files_changed
ShouldCommitIgnoringDryRun(dry_run, files) == files # <<>>
ShouldCommitIgnoringFiles(dry_run, files) == ~dry_run
ShouldCommit(dry_run, files) == ~dry_run /\ files # <<>>

\* line 197: diff if len(diff) <= 200_000 else ""
CapDiffTruncating(d) == IF d <= DiffCap THEN d ELSE DiffCap
CapDiff(d) == IF d <= DiffCap THEN d ELSE 0

\* lines 194-201: the outcome of implement
ImplementResultShaDropped(o, files, d, c, sha) ==
    [summary |-> strip(o), files_changed |-> files, diff |-> CapDiff(d),
     committed |-> c, commit_sha |-> None]
ImplementResult(o, files, d, c, sha) ==
    [summary |-> strip(o), files_changed |-> files, diff |-> CapDiff(d),
     committed |-> c, commit_sha |-> sha]

\* line 86: the outcome of ask_question
AskResult(o) == [answer |-> strip(o)]

\* lines 84 and 169: if code != 0: raise
AgentFailedOnlyAboveOne(rc) == rc > 1
AgentFailed(rc) == rc # 0

\* git rev-parse HEAD prints the commit's name and a newline; the h-th
\* commit is named by h letters
RevParseText(h) == [i \in 1 .. h |-> "c"] \o <<"\n">>

(***************************************************************************)
(* Exceptions.  SystemExit derives from BaseException, not from Exception, *)
(* so `except Exception` lets it through.                                  *)
(***************************************************************************)
IsException(e) == e # "SystemExit"

\* _preflight, lines 212-214: except Exception as e: print(...); sys.exit(1)
PreflightRaises(e) == IF IsException(e) THEN "SystemExit" ELSE e

\* ask_question lines 75-78, implement lines 135-138:
\* except Exception as e: raise RuntimeError(f"Preflight failed: {e}")
ToolRaises(e) == IF IsException(e) THEN "RuntimeError" ELSE e

(***************************************************************************)
(* _preflight, lines 204-214                                               *)
(***************************************************************************)
NodeMajors == (MinNodeMajor - 1) .. MinNodeMajor
DigitTok(n) == CASE n = 17 -> "17" [] n = 18 -> "18"

\* what `node -v` prints for a major version, and two other outputs
NodeVersionText(m) == <<"v", DigitTok(m), ".", "0", "\n">>
NodeOutputs == {<<>>, <<"x", "\n">>} \cup {NodeVersionText(m) : m \in NodeMajors}

RECURSIVE lstripV(_)
\* str.lstrip("v")
lstripV(s) == IF s # <<>> /\ Head(s) = "v" THEN lstripV(Tail(s)) ELSE s

RECURSIVE FirstField(_)
\* str.split(".")[0]
FirstField(s) == IF s = <<>> \/ Head(s) = "." THEN <<>> ELSE <<Head(s)>> \o FirstField(Tail(s))

\* int(x) succeeds on a text that is one number
IsInt(f) == Len(f) = 1 /\ \E n \in NodeMajors : DigitTok(n) = f[1]
IntOf(f) == CHOOSE n \in NodeMajors : DigitTok(n) = f[1]

\* lines 207-209: "ok", or the exception the two asserts and int() raise
NodeCheckWithoutVersion(rc, o) ==
    IF rc = 0 /\ strip(o) # <<>> THEN "ok" ELSE "AssertionError"
NodeCheck(rc, o) ==
    IF ~(rc = 0 /\ strip(o) # <<>>) THEN "AssertionError"
    ELSE LET f == FirstField(lstripV(strip(o)))
         IN  IF ~IsInt(f) THEN "ValueError"
             ELSE IF IntOf(f) >= MinNodeMajor THEN "ok" ELSE "AssertionError"

\* line 211: assert code == 0
AuggieCheckAnyCode(rc) == "ok"
AuggieCheck(rc) == IF rc = 0 THEN "ok" ELSE "AssertionError"

NoProbe == [kind |-> "none", code |-> 0, out |-> <<>>]
NotFound == [kind |-> "notfound", code |-> 0, out |-> <<>>]
TimedOut == [kind |-> "timeout", code |-> 0, out |-> <<>>]
NodeResults == {TimedOut} \cup [kind : {"exit"}, code : {0, 1}, out : NodeOutputs]
AuggieResults == {TimedOut} \cup [kind : {"exit"}, code : {0, 1}, out : {<<>>}]

(***************************************************************************)
(* _run, lines 29-42                                                       *)
(***************************************************************************)
\* lines 37-42: the process after the wait: it exited, or the wait timed
\* out and proc.kill() was called
ProcAfterWithoutKill(kind) == IF kind = "timeout" THEN "running" ELSE "exited"
ProcAfter(kind) == IF kind = "timeout" THEN "killed" ELSE "exited"

\* line 38: asyncio.wait_for(..., timeout) gives the wait up when the
\* timeout elapses; with timeout None it would wait for ever
TimesOutNever(timeout) == FALSE
TimesOut(timeout) == timeout \in Nat

\* proc: the state of the process, and how the wait for it ended
NoProc == [state |-> "none", wait |-> "none"]
Running == [state |-> "running", wait |-> "pending"]
Ended(kind) == [state |-> ProcAfter(kind), wait |-> kind]

\* spawned: one entry per process.  Lines 30-36: the spawn with its last
\* argument; env=_env() copies os.environ as it is now.  Lines 37-42: how the
\* wait for it ended.
NoArg == <<>>
Pending == [kind |-> "pending", code |-> 0]
Entry(cmd, timeout, arg) ==
    [cmd |-> cmd, arg |-> arg, cache |-> environ, timeout |-> timeout, end |-> Pending]
Spawned(log, cmd, timeout, arg) == Append(log, Entry(cmd, timeout, arg))

\* the log once the wait for the process spawned last has ended as r did
Finished(r) ==
    [spawned EXCEPT ![Len(spawned)].end = [kind |-> r.kind, code |-> r.code]]

\* lines 37-41: the wait for the running process can end as r: it is
\* given up only by its timeout
Awaited(r) == r.kind = "timeout" => TimesOut(spawned[Len(spawned)].timeout)

\* what a run of the agent can end in: the stdout of a run that exits with
\* 0 is drawn from T, the stdout and stderr of a failed run from the short
\* texts
AgentResults(T) ==
    [kind : {"timeout"}, code : {0}, out : {<<>>}, err : {<<>>}]
    \cup [kind : {"exit"}, code : {0}, out : T, err : {<<>>}]
    \cup [kind : {"exit"}, code : {1}, out : SummaryTexts, err : SummaryTexts]
GitResults == [kind : {"exit"}, code : {0, 1}] \cup [kind : {"timeout"}, code : {0}]

(***************************************************************************)
(* Calls                                                                   *)
(***************************************************************************)
Root == "W"
Cwd == Root
TmpDirOf(root) == <<root, ".augment", ".mcp-temp">>

\* Optional[str]: Nothing is None, Some(t) is the text t
Nothing == <<>>
Some(t) == <<t>>

\* the prompt and the scope of the implement calls of Spec
Prompt == <<" ", "p", "q">>
Scopes == {<<>>, <<"src/">>}
Messages == {Nothing, Some(<<"m">>)}

NoCall == [op |-> "none", prompt |-> <<>>, workspace_root |-> None, branch |-> None,
           commit_message |-> Nothing, scope |-> <<>>, dry_run |-> FALSE,
           timeout_sec |-> DEFAULT_TIMEOUT]
AskCalls == [op : {"ask_question"}, prompt : {<<>>}, workspace_root : {None, Root},
             branch : {None}, commit_message : {Nothing}, scope : {<<>>},
             dry_run : {FALSE}, timeout_sec : {DEFAULT_TIMEOUT}]
ImplementCallsOf(prompts, messages) ==
    [op : {"implement"}, prompt : prompts, workspace_root : {None, Root},
     branch : {None, "feat"}, commit_message : messages,
     scope : Scopes, dry_run : BOOLEAN, timeout_sec : {IMPLEMENT_TIMEOUT}]
ImplementCalls == ImplementCallsOf({Prompt}, Messages)

NoResult == [kind |-> "none"]
Workspace == [branch |-> branch, head |-> head, wt |-> wt, inHead |-> inHead,
              settings |-> settings]
NoWorkspace == [branch |-> None, head |-> 0, wt |-> [p \in Paths |-> Clean], inHead |-> {},
                settings |-> Nothing]

\* The server has started (_main, lines 217-222): no call has been made and
\* nothing has been spawned.
InitServer ==
    /\ server = "running"
    /\ environ = NoDir
    /\ branch = MainBranch
    /\ head = 0
    /\ wt = [p \in Paths |-> Clean]
    /\ inHead = {TrackedFile}
    /\ settings = Nothing
    /\ pc = "idle"
    /\ call = NoCall
    /\ spawned = <<>>
    /\ proc = NoProc
    /\ code = <<>>
    /\ out = <<>>
    /\ files_changed = <<>>
    /\ diff = 0
    /\ committed = FALSE
    /\ commit_sha = None
    /\ commit_message = Nothing
    /\ mutated = FALSE
    /\ pf = [node |-> NoProbe, auggie |-> NoProbe]
    /\ before = NoWorkspace
    /\ result = NoResult
    /\ preflighted = FALSE

Init ==
    /\ InitServer
    /\ tasks = <<>>

\* The call ends by raising exc.  SystemExit is caught by nothing in the
\* server and ends the process; any other exception fails the call.
Raise(exc, msg) ==
    IF exc = "SystemExit"
    THEN /\ server' = "exited"
         /\ pc' = "exited"
         /\ result' = [kind |-> "exit", code |-> 1]
    ELSE /\ server' = server
         /\ pc' = "done"
         /\ result' = [kind |-> "error", exc |-> exc, msg |-> msg]

\* The call ends by returning value.
Return(value) ==
    /\ server' = server
    /\ pc' = "done"
    /\ result' = [kind |-> "outcome", value |-> value]

\* The call goes on to the await named by label.
Goto(label) ==
    /\ server' = server
    /\ pc' = label
    /\ result' = NoResult

\* A tool call is dispatched: its locals are fresh, and it runs up to the
\* first await of _preflight, the spawn of `node -v` (line 206), which
\* raises FileNotFoundError when there is no node on PATH.
Dispatch(c) ==
    /\ pc = "idle"
    /\ server = "running"
    /\ call' = c
    /\ code' = <<>>
    /\ out' = <<>>
    /\ files_changed' = <<>>
    /\ diff' = 0
    /\ committed' = FALSE
    /\ commit_sha' = None
    /\ commit_message' = c.commit_message
    /\ mutated' = FALSE
    /\ before' = Workspace
    /\ UNCHANGED <<environ, wsvars, preflighted, tasks>>
    /\ \/ /\ spawned' = Spawned(<<>>, "node -v", PREFLIGHT_TIMEOUT, NoArg)
          /\ proc' = Running
          /\ pf' = [node |-> NoProbe, auggie |-> NoProbe]
          /\ Goto("pf_node")
       \/ /\ spawned' = <<>>
          /\ proc' = NoProc
          /\ pf' = [node |-> NotFound, auggie |-> NoProbe]
          /\ Raise(ToolRaises(PreflightRaises("FileNotFoundError")), <<"Preflight failed">>)

ask_question ==
    \E c \in AskCalls :
        /\ c.op = "ask_question"
        /\ Dispatch(c)

implement ==
    \E c \in ImplementCalls :
        /\ c.dry_run \/ head < MaxCommits
        /\ Dispatch(c)

\* implement, line 139-140: the effective workspace root
ResolveRoot(r) == IF r = None THEN Cwd ELSE r

\* _read_only_settings, lines 106-114: the content of the settings artifact
DeniedTools == {"save-file", "str-replace-editor", "remove-files", "launch-process"}
ReadOnlySettingsWithoutLaunch ==
    {[tool |-> t, permission |-> "deny"] : t \in DeniedTools \ {"launch-process"}}
ReadOnlySettings == {[tool |-> t, permission |-> "deny"] : t \in DeniedTools}

\* implement, lines 148-156: the sandbox of a dry run.  The settings
\* artifact is written under the workspace and the cache directory is put
\* into os.environ.
SandboxTree(dry_run, w, h) == IF dry_run THEN WriteArtifact(w, h) ELSE w
SandboxSettings(dry_run, old) == IF dry_run THEN Some(ReadOnlySettings) ELSE old
SandboxEnv(dry_run, env, root) == IF dry_run THEN TmpDirOf(root) ELSE env

\* line 145: if branch
WantsCheckout(b) == b # None

\* line 146: `git checkout -B <branch>` starts the branch at HEAD and keeps
\* the local changes of the working tree
CheckoutTreeForced(w) == [p \in Paths |-> IF w[p] \in Unstaged THEN Clean ELSE w[p]]
CheckoutTree(w) == w

RECURSIVE Join(_)
\* ", ".join(scope)
Join(parts) ==
    IF parts = <<>> THEN <<>>
    ELSE IF Len(parts) = 1 THEN <<Head(parts)>>
    ELSE <<Head(parts), ", ">> \o Join(Tail(parts))

\* implement, lines 159-163: the instruction handed to the agent
ScopeHint(scope) ==
    IF scope # <<>> THEN <<"\n", "Scope: limit edits to ">> \o Join(scope) ELSE <<>>
Instruction(prompt, scope) == strip(prompt) \o ScopeHint(scope)

\* implement, lines 188-189: the commit message
CommitPrefixLen == 72
Take(s, n) == SubSeq(s, 1, IF Len(s) < n THEN Len(s) ELSE n)
DefaultMessageUncut(prompt) == <<"Implement: ">> \o prompt
DefaultMessage(prompt) == <<"Implement: ">> \o Take(prompt, CommitPrefixLen)
MessageFor(cm, prompt) ==
    IF cm = Nothing \/ cm = Some(<<>>) THEN Some(DefaultMessage(prompt)) ELSE cm

\* _preflight, lines 206-210: `node -v` has ended: the checks on it, then the
\* spawn of `auggie --version`.
PreflightNodeDone ==
    /\ pc = "pf_node"
    /\ \E r \in NodeResults :
        /\ Awaited(r)
        /\ UNCHANGED <<environ, wsvars, call, locals, mutated, before, preflighted, tasks>>
        /\ LET e == IF r.kind = "timeout" THEN "TimeoutError" ELSE NodeCheck(r.code, r.out)
           IN  IF e # "ok"
               THEN /\ pf' = [pf EXCEPT !.node = r]
                    /\ proc' = Ended(r.kind)
                    /\ spawned' = Finished(r)
                    /\ Raise(ToolRaises(PreflightRaises(e)), <<"Preflight failed">>)
               ELSE \/ /\ pf' = [pf EXCEPT !.node = r]
                       /\ proc' = Running
                       /\ spawned' = Spawned(Finished(r), "auggie --version",
                                             PREFLIGHT_TIMEOUT, NoArg)
                       /\ Goto("pf_auggie")
                    \/ /\ pf' = [node |-> r, auggie |-> NotFound]
                       /\ proc' = Ended(r.kind)
                       /\ spawned' = Finished(r)
                       /\ Raise(ToolRaises(PreflightRaises("FileNotFoundError")),
                                <<"Preflight failed">>)

\* _preflight, lines 210-211: `auggie --version` has ended.  When preflight
\* passes the tool runs on to its next await: ask_question to ctx.info
\* (lines 79-82); implement to the checkout (lines 139-146) or, with no
\* branch, through the sandbox set-up to ctx.info (lines 148-167).
PreflightAuggieDone ==
    /\ pc = "pf_auggie"
    /\ \E r \in AuggieResults :
        /\ Awaited(r)
        /\ pf' = [pf EXCEPT !.auggie = r]
        /\ UNCHANGED <<branch, head, inHead, call, locals, mutated, before, preflighted, tasks>>
        /\ LET e == IF r.kind = "timeout" THEN "TimeoutError" ELSE AuggieCheck(r.code)
           IN  IF e # "ok"
               THEN /\ proc' = Ended(r.kind)
                    /\ spawned' = Finished(r)
                    /\ UNCHANGED <<environ, wt, settings>>
                    /\ Raise(ToolRaises(PreflightRaises(e)), <<"Preflight failed">>)
               ELSE IF call.op = "ask_question"
               THEN /\ proc' = Ended(r.kind)
                    /\ spawned' = Finished(r)
                    /\ UNCHANGED <<environ, wt, settings>>
                    /\ Goto("ask_info")
               ELSE IF WantsCheckout(call.branch)
               THEN /\ proc' = Running
                    /\ spawned' = Spawned(Finished(r), "git checkout", GIT_TIMEOUT, NoArg)
                    /\ UNCHANGED <<environ, wt, settings>>
                    /\ Goto("impl_checkout")
               ELSE /\ proc' = Ended(r.kind)
                    /\ spawned' = Finished(r)
                    /\ wt' = SandboxTree(call.dry_run, wt, inHead)
                    /\ settings' = SandboxSettings(call.dry_run, settings)
                    /\ environ' = SandboxEnv(call.dry_run, environ, ResolveRoot(call.workspace_root))
                    /\ Goto("impl_info")

\* ask_question, line 83: ctx.info has returned; the agent is spawned.
AskSpawn ==
    /\ pc = "ask_info"
    /\ spawned' = Spawned(spawned, "auggie", call.timeout_sec, NoArg)
    /\ proc' = Running
    /\ Goto("ask_agent")
    /\ UNCHANGED <<environ, wsvars, call, locals, mutated, pf, before, preflighted, tasks>>

\* ask_question, lines 83-86: the agent run has ended.  The agent may have
\* changed the working tree whatever way it ended.
AskAgentDone ==
    /\ pc = "ask_agent"
    /\ \E r \in AgentResults(Texts), e \in AgentEffects :
        /\ Awaited(r)
        /\ proc' = Ended(r.kind)
        /\ spawned' = Finished(r)
        /\ wt' = AgentApply(e, wt, inHead)
        /\ mutated' = (wt' # wt)
        /\ UNCHANGED <<environ, branch, head, inHead, settings, call, files_changed, diff,
                       committed, commit_sha, commit_message, pf, before, preflighted, tasks>>
        /\ IF r.kind = "timeout"
           THEN /\ UNCHANGED <<code, out>>
                /\ Raise("TimeoutError", <<"timeout">>)
           ELSE /\ code' = <<r.code>>
                /\ out' = r.out
                /\ IF AgentFailed(r.code)
                   THEN Raise("RuntimeError", <<"Auggie failed", ErrOrOut(r.err, r.out)>>)
                   ELSE Return(AskResult(r.out))

\* _git, lines 98-102: how a git subcommand that has ended fails the call
GitRaise(r, sub) ==
    IF r.kind = "timeout" THEN Raise("TimeoutError", <<"timeout">>)
    ELSE Raise("RuntimeError", <<"git " \o sub \o " failed">>)
GitOkWhateverCode(r) == r.kind = "exit"
GitOk(r) == r.kind = "exit" /\ r.code = 0

\* implement, lines 146-167: the checkout has ended (_git, lines 98-102);
\* then the sandbox set-up, up to ctx.info.
ImplCheckoutDone ==
    /\ pc = "impl_checkout"
    /\ \E r \in GitResults :
        /\ Awaited(r)
        /\ proc' = Ended(r.kind)
        /\ spawned' = Finished(r)
        /\ UNCHANGED <<head, inHead, call, locals, mutated, pf, before, preflighted, tasks>>
        /\ IF ~GitOk(r)
           THEN /\ UNCHANGED <<environ, branch, wt, settings>>
                /\ GitRaise(r, "checkout")
           ELSE /\ branch' = call.branch
                /\ wt' = SandboxTree(call.dry_run, CheckoutTree(wt), inHead)
                /\ settings' = SandboxSettings(call.dry_run, settings)
                /\ environ' = SandboxEnv(call.dry_run, environ, ResolveRoot(call.workspace_root))
                /\ Goto("impl_info")

\* implement, lines 159-168: ctx.info has returned; the agent is spawned
\* with the instruction.
ImplSpawn ==
    /\ pc = "impl_info"
    /\ spawned' = Spawned(spawned, "auggie", call.timeout_sec,
                          Instruction(call.prompt, call.scope))
    /\ proc' = Running
    /\ Goto("impl_agent")
    /\ UNCHANGED <<environ, wsvars, call, locals, mutated, pf, before, preflighted, tasks>>

\* implement, lines 168-174: the agent run has ended; on exit code 0 the
\* status subcommand is spawned.  The agent may have changed the working
\* tree whatever way it ended.
ImplAgentDone ==
    /\ pc = "impl_agent"
    /\ \E r \in AgentResults(SummaryTexts), e \in AgentEffects :
        /\ Awaited(r)
        /\ wt' = AgentApply(e, wt, inHead)
        /\ mutated' = (wt' # wt)
        /\ UNCHANGED <<environ, branch, head, inHead, settings, call, files_changed, diff,
                       committed, commit_sha, commit_message, pf, before, preflighted, tasks>>
        /\ IF r.kind = "timeout"
           THEN /\ proc' = Ended(r.kind)
                /\ spawned' = Finished(r)
                /\ UNCHANGED <<code, out>>
                /\ Raise("TimeoutError", <<"timeout">>)
           ELSE IF AgentFailed(r.code)
           THEN /\ proc' = Ended(r.kind)
                /\ spawned' = Finished(r)
                /\ code' = <<r.code>>
                /\ out' = r.out
                /\ Raise("RuntimeError", <<"Auggie failed", ErrOrOut(r.err, r.out)>>)
           ELSE /\ code' = <<r.code>>
                /\ out' = r.out
                /\ proc' = Running
                /\ spawned' = Spawned(Finished(r), "git status", GIT_TIMEOUT, NoArg)
                /\ Goto("impl_status")

\* implement, lines 184-201, reached with the change set (files, d) when the
\* subcommand that ended as r did was the last to collect it: the commit
\* formatter starts with `git add -A`, or the outcome is returned.
AfterCollect(files, d, r) ==
    IF ShouldCommit(call.dry_run, files)
    THEN /\ proc' = Running
         /\ spawned' = Spawned(Finished(r), "git add", GIT_TIMEOUT, NoArg)
         /\ Goto("impl_add")
    ELSE /\ proc' = Ended(r.kind)
         /\ spawned' = Finished(r)
         /\ Return(ImplementResult(out, files, d, committed, commit_sha))

\* line 181: if files_changed
WantsDiffAlways(files) == TRUE
WantsDiff(files) == files # <<>>

\* implement, lines 174-182: the status subcommand has ended; its lines are
\* parsed and, if a path was found, the diff subcommand is spawned.
ImplStatusDone ==
    /\ pc = "impl_status"
    /\ \E r \in GitResults :
        /\ Awaited(r)
        /\ UNCHANGED <<environ, wsvars, call, code, out, diff, committed, commit_sha,
                       commit_message, mutated, pf, before, preflighted, tasks>>
        /\ IF ~GitOk(r)
           THEN /\ proc' = Ended(r.kind)
                /\ spawned' = Finished(r)
                /\ UNCHANGED files_changed
                /\ GitRaise(r, "status")
           ELSE LET files == ParseStatus(GitStatus(wt))
                IN  /\ files_changed' = files
                    /\ IF WantsDiff(files)
                       THEN /\ proc' = Running
                            /\ spawned' = Spawned(Finished(r), "git diff", GIT_TIMEOUT, NoArg)
                            /\ Goto("impl_diff")
                       ELSE AfterCollect(files, diff, r)

\* implement, lines 182-187: the diff subcommand has ended.
ImplDiffDone ==
    /\ pc = "impl_diff"
    /\ \E r \in GitResults, n \in DiffLengths :
        /\ Awaited(r)
        /\ UNCHANGED <<environ, wsvars, call, code, out, files_changed, committed,
                       commit_sha, commit_message, mutated, pf, before, preflighted, tasks>>
        /\ IF ~GitOk(r)
           THEN /\ n = 1
                /\ proc' = Ended(r.kind)
                /\ spawned' = Finished(r)
                /\ UNCHANGED diff
                /\ GitRaise(r, "diff")
           ELSE /\ HasUnstaged(wt) \/ n = 1
                /\ diff' = IF HasUnstaged(wt) THEN n ELSE 0
                /\ AfterCollect(files_changed, diff', r)

\* implement, lines 187-190: `git add -A` has ended; the message is chosen
\* and `git commit -m` is spawned with it.
ImplAddDone ==
    /\ pc = "impl_add"
    /\ \E r \in GitResults :
        /\ Awaited(r)
        /\ UNCHANGED <<environ, branch, head, inHead, settings, call, code, out,
                       files_changed, diff, committed, commit_sha, mutated, pf, before,
                       preflighted, tasks>>
        /\ IF ~GitOk(r)
           THEN /\ proc' = Ended(r.kind)
                /\ spawned' = Finished(r)
                /\ UNCHANGED <<wt, commit_message>>
                /\ GitRaise(r, "add")
           ELSE /\ wt' = StageAll(wt)
                /\ commit_message' = MessageFor(commit_message, call.prompt)
                /\ proc' = Running
                /\ spawned' = Spawned(Finished(r), "git commit", GIT_TIMEOUT,
                                      commit_message'[1])
                /\ Goto("impl_commit")

\* implement, lines 190-192: `git commit` has ended; `git rev-parse HEAD` is
\* spawned.  git commits only when something is staged.
ImplCommitDone ==
    /\ pc = "impl_commit"
    /\ \E r \in GitResults :
        /\ Awaited(r)
        /\ GitOk(r) => HasStaged(wt)
        /\ UNCHANGED <<environ, branch, settings, call, code, out, files_changed, diff,
                       commit_sha, commit_message, mutated, pf, before, preflighted, tasks>>
        /\ IF ~GitOk(r)
           THEN /\ proc' = Ended(r.kind)
                /\ spawned' = Finished(r)
                /\ UNCHANGED <<wt, inHead, head, committed>>
                /\ GitRaise(r, "commit")
           ELSE /\ wt' = CommitTree(wt)
                /\ inHead' = CommitHead(wt, inHead)
                /\ head' = head + 1
                /\ committed' = TRUE
                /\ proc' = Running
                /\ spawned' = Spawned(Finished(r), "git rev-parse", GIT_TIMEOUT, NoArg)
                /\ Goto("impl_revparse")

\* implement, lines 192-201: `git rev-parse HEAD` has ended; the outcome is
\* returned.
ImplRevParseDone ==
    /\ pc = "impl_revparse"
    /\ \E r \in GitResults :
        /\ Awaited(r)
        /\ proc' = Ended(r.kind)
        /\ spawned' = Finished(r)
        /\ UNCHANGED <<environ, wsvars, call, code, out, files_changed, diff,
                       committed, commit_message, mutated, pf, before, preflighted, tasks>>
        /\ IF ~GitOk(r)
           THEN /\ UNCHANGED commit_sha
                /\ GitRaise(r, "rev-parse")
           ELSE /\ commit_sha' = strip(RevParseText(head))
                /\ Return(ImplementResult(out, files_changed, diff, committed, commit_sha'))

\* lines 210-211: the preflight of the call has passed
PreflightPassed == pf.auggie.kind = "exit" /\ AuggieCheck(pf.auggie.code) = "ok"

\* The framework has sent the call's response (the outcome or the error);
\* the call's frame is gone and the server waits for the next call.
Respond ==
    /\ pc = "done"
    /\ pc' = "idle"
    /\ call' = NoCall
    /\ spawned' = <<>>
    /\ proc' = NoProc
    /\ code' = <<>>
    /\ out' = <<>>
    /\ files_changed' = <<>>
    /\ diff' = 0
    /\ committed' = FALSE
    /\ commit_sha' = None
    /\ commit_message' = Nothing
    /\ mutated' = FALSE
    /\ pf' = [node |-> NoProbe, auggie |-> NoProbe]
    /\ before' = NoWorkspace
    /\ result' = NoResult
    /\ preflighted' = (preflighted \/ PreflightPassed)
    /\ UNCHANGED <<server, environ, wsvars, tasks>>

Next ==
    \/ Respond
    \/ ask_question
    \/ implement
    \/ PreflightNodeDone
    \/ PreflightAuggieDone
    \/ AskSpawn
    \/ AskAgentDone
    \/ ImplCheckoutDone
    \/ ImplSpawn
    \/ ImplAgentDone
    \/ ImplStatusDone
    \/ ImplDiffDone
    \/ ImplAddDone
    \/ ImplCommitDone
    \/ ImplRevParseDone

Spec == Init /\ [][Next]_vars

\* A step of the call in flight.
CallStep ==
    \/ PreflightNodeDone
    \/ PreflightAuggieDone
    \/ AskSpawn
    \/ AskAgentDone
    \/ ImplCheckoutDone
    \/ ImplSpawn
    \/ ImplAgentDone
    \/ ImplStatusDone
    \/ ImplDiffDone
    \/ ImplAddDone
    \/ ImplCommitDone
    \/ ImplRevParseDone

\* One call, followed from its dispatch to its end.
NextLive ==
    \/ ask_question
    \/ implement
    \/ CallStep

\* the timeout of wait_for (line 38) has elapsed and the wait is given up
GiveUp == CallStep /\ proc'.wait = "timeout"

\* ctx.info (lines 82, 167) has returned
InfoReturns == AskSpawn \/ ImplSpawn

\* A spawned process may never exit, so no step that needs an exit is
\* required to happen; the event loop does fire the timeout of a wait and
\* does resume a call whose log message was sent.
SpecLive ==
    /\ Init
    /\ [][NextLive]_vars
    /\ WF_vars(GiveUp)
    /\ WF_vars(InfoReturns)

(***************************************************************************)
(* Concurrent implement calls.  The event loop runs one coroutine at a     *)
(* time and switches at an await; os.environ is shared by all of them.     *)
(* tasks[i] is one call: its workspace root, its dry_run flag, the await   *)
(* it is suspended at, and the cache directory its agent was spawned with. *)
(* The calls carry no branch, and only the steps up to the agent run are   *)
(* told apart.                                                             *)
(***************************************************************************)
OtherRoot == "V"
Roots == {Root, OtherRoot}
TaskIds == 1 .. MaxTasks
IdleTask == [pc |-> "idle", root |-> Root, dry_run |-> FALSE, cache |-> NoDir]

servervars == <<server, branch, head, wt, inHead, settings, pc, call, spawned, proc,
                code, out, files_changed, diff, committed, commit_sha, commit_message,
                mutated, pf, before, result, preflighted>>

InitConc ==
    /\ InitServer
    /\ tasks = [i \in TaskIds |-> IdleTask]

\* lines 135-136: the call is dispatched and awaits _preflight
ConcDispatch(i) ==
    /\ tasks[i].pc = "idle"
    /\ \E root \in Roots, dry_run \in BOOLEAN :
          tasks' = [tasks EXCEPT ![i] = [pc |-> "preflight", root |-> root,
                                         dry_run |-> dry_run, cache |-> NoDir]]
    /\ UNCHANGED <<servervars, environ>>

\* lines 139-167: preflight has passed; the sandbox set-up puts the cache
\* directory into os.environ, and the call awaits ctx.info
ConcSandbox(i) ==
    /\ tasks[i].pc = "preflight"
    /\ environ' = SandboxEnv(tasks[i].dry_run, environ, tasks[i].root)
    /\ tasks' = [tasks EXCEPT ![i].pc = "info"]
    /\ UNCHANGED servervars

\* line 168, lines 30-36: ctx.info has returned; the agent is spawned with a
\* copy of os.environ as it is now
ConcSpawn(i) ==
    /\ tasks[i].pc = "info"
    /\ tasks' = [tasks EXCEPT ![i].pc = "agent", ![i].cache = environ]
    /\ UNCHANGED <<servervars, environ>>

\* lines 168-201: the agent run has ended and the call runs to its end
ConcEnd(i) ==
    /\ tasks[i].pc = "agent"
    /\ tasks' = [tasks EXCEPT ![i] = IdleTask]
    /\ UNCHANGED <<servervars, environ>>

NextConc ==
    \E i \in TaskIds :
        \/ ConcDispatch(i)
        \/ ConcSandbox(i)
        \/ ConcSpawn(i)
        \/ ConcEnd(i)

SpecConc == InitConc /\ [][NextConc]_vars

(***************************************************************************)
(* The commit message, lines 159-190, over prompts around 72 characters:   *)
(* implement calls that commit, taken from the point where preflight has   *)
(* passed and the call waits at ctx.info (line 167).                       *)
(***************************************************************************)
PromptLens == {0, 1} \cup ((CommitPrefixLen - 1) .. (CommitPrefixLen + MaxPromptOver))

\* a prompt of n characters, with or without a leading blank
PromptOf(n, lead) ==
    [i \in 1 .. n |-> IF i = 1 /\ lead THEN " " ELSE IF i % 2 = 1 THEN "a" ELSE "b"]
Prompts == {PromptOf(n, lead) : n \in PromptLens, lead \in BOOLEAN}
AllMessages == {Nothing, Some(<<>>), Some(<<"m">>)}

ExitedOk == [kind |-> "exit", code |-> 0]
ProbesPassed ==
    <<[Entry("node -v", PREFLIGHT_TIMEOUT, NoArg) EXCEPT !.end = ExitedOk],
      [Entry("auggie --version", PREFLIGHT_TIMEOUT, NoArg) EXCEPT !.end = ExitedOk]>>

InitMessage ==
    /\ server = "running"
    /\ environ = NoDir
    /\ branch = MainBranch
    /\ head = 0
    /\ wt = [p \in Paths |-> Clean]
    /\ inHead = {TrackedFile}
    /\ settings = Nothing
    /\ pc = "impl_info"
    /\ call \in {c \in ImplementCallsOf(Prompts, AllMessages) :
                    ~c.dry_run /\ c.branch = None /\ c.workspace_root = Root}
    /\ spawned = ProbesPassed
    /\ proc = Ended("exit")
    /\ code = <<>>
    /\ out = <<>>
    /\ files_changed = <<>>
    /\ diff = 0
    /\ committed = FALSE
    /\ commit_sha = None
    /\ commit_message = call.commit_message
    /\ mutated = FALSE
    /\ pf = [node |-> [kind |-> "exit", code |-> 0, out |-> NodeVersionText(MinNodeMajor)],
             auggie |-> [kind |-> "exit", code |-> 0, out |-> <<>>]]
    /\ before = Workspace
    /\ result = NoResult
    /\ preflighted = FALSE
    /\ tasks = <<>>

NextMessage ==
    \/ ImplSpawn
    \/ ImplAgentDone
    \/ ImplStatusDone
    \/ ImplDiffDone
    \/ ImplAddDone
    \/ ImplCommitDone
    \/ ImplRevParseDone

SpecMessage == InitMessage /\ [][NextMessage]_vars

(***************************************************************************)
(* Properties                                                              *)
(***************************************************************************)
Cmds == {spawned[i].cmd : i \in DOMAIN spawned}
IsImplement == call.op = "implement"
IsAsk == call.op = "ask_question"
CallEnded == pc \in {"done", "exited"}
Outcome == result.kind = "outcome"

\* The processes of the task proper: the agent run and the git subcommands.
TaskCmds == {"auggie", "git checkout", "git status", "git diff", "git add",
             "git commit", "git rev-parse"}

\* C1: a dry-run implement call issues no `git add` and no `git commit`,
\* and an outcome it returns has committed = false, whatever the agent
\* printed and whatever git status reported.
C1_DryRunNeverCommits ==
    (IsImplement /\ call.dry_run) =>
        /\ Cmds \cap {"git add", "git commit"} = {}
        /\ Outcome => ~result.value.committed

\* a dry run has returned an outcome whose status listed changed paths
C1_Witness ==
    /\ IsImplement /\ call.dry_run /\ pc = "done" /\ Outcome
    /\ result.value.files_changed # <<>>
    /\ result.value.summary # <<>>

\* C2: no process spawned for an ask_question call or for a non-dry-run
\* implement call carries a cache-directory override.
C2_CacheDirOnlyInDryRun ==
    (IsAsk \/ (IsImplement /\ ~call.dry_run)) =>
        \A i \in DOMAIN spawned : spawned[i].cache = NoDir

\* C3 as claimed: when a dry-run implement call has ended and its agent run
\* changed nothing, the workspace (status of every path, branch, HEAD) is
\* what it was when the call was dispatched.
C3_DryRunLeavesWorkspace ==
    (IsImplement /\ call.dry_run /\ pc = "done" /\ ~mutated) => Workspace = before

\* C3 as amended: when a dry-run implement call has ended and its agent run
\* changed nothing, HEAD and the status of every path other than the
\* settings artifact are what they were at dispatch; the branch is what it
\* was at dispatch when no branch was given, and otherwise is either that
\* or the branch given.
C3_DryRunLeavesAllButArtifactAndBranch ==
    (IsImplement /\ call.dry_run /\ pc = "done" /\ ~mutated) =>
        /\ head = before.head
        /\ inHead = before.inHead
        /\ \A p \in Paths \ {ArtifactFile} : wt[p] = before.wt[p]
        /\ call.branch = None => branch = before.branch
        /\ branch \in {before.branch, call.branch}

\* a dry run with a branch and a dirty tree has returned, the branch
\* switched and the artifact newly written
C3_Witness ==
    /\ IsImplement /\ call.dry_run /\ pc = "done" /\ ~mutated /\ Outcome
    /\ call.branch # None /\ branch # before.branch
    /\ wt[ArtifactFile] # before.wt[ArtifactFile]
    /\ result.value.files_changed # <<>>

\* what preflight is meant to reject: no runtime, a runtime older than the
\* minimum, or an agent binary that does not answer the version query
PreflightUnmet ==
    \/ pf.node.kind = "notfound"
    \/ pf.node.kind = "exit" /\ pf.node.out = NodeVersionText(MinNodeMajor - 1)
    \/ pf.auggie.kind \in {"notfound", "timeout"}
    \/ pf.auggie.kind = "exit" /\ pf.auggie.code # 0

\* C4: once preflight has found an unmet condition the call has ended
\* without an outcome, and it has spawned no process of the task proper.
C4_PreflightFailureBeforeTask ==
    PreflightUnmet =>
        /\ CallEnded
        /\ ~Outcome
        /\ Cmds \cap TaskCmds = {}

\* an implement call on a host whose runtime is one major version too old
C4_Witness ==
    /\ IsImplement /\ CallEnded
    /\ pf.node.kind = "exit" /\ pf.node.code = 0
    /\ pf.node.out = NodeVersionText(MinNodeMajor - 1)

\* C5: a preflight failure fails the call with an error that says so, and
\* leaves the server running.
C5_PreflightFailureFailsCallOnly ==
    PreflightUnmet =>
        /\ server = "running"
        /\ result.kind = "error"
        /\ result.msg[1] = "Preflight failed"

\* C6: an outcome of implement carries a commit identifier exactly when
\* committed is true.
C6_ShaIffCommitted ==
    (IsImplement /\ Outcome) =>
        ((result.value.commit_sha # None) <=> result.value.committed)

\* an implement call has returned committed = true with an identifier
C6_Witness ==
    /\ IsImplement /\ pc = "done" /\ Outcome
    /\ result.value.committed
    /\ result.value.commit_sha = <<"c">>

\* C7: in an outcome of implement the diff is non-empty only if
\* files_changed is; it is the whole diff text when that is at most 200,000
\* characters long and empty when it is longer.
C7_DiffWholeOrEmpty ==
    (IsImplement /\ Outcome) =>
        /\ result.value.diff # 0 => result.value.files_changed # <<>>
        /\ diff <= DiffCap => result.value.diff = diff
        /\ diff > DiffCap => result.value.diff = 0

\* an implement call has returned with a diff text over the cap
C7_Witness ==
    /\ IsImplement /\ pc = "done" /\ Outcome
    /\ diff > DiffCap
    /\ result.value.diff = 0

\* C8: when the wait for a process has timed out the process is killed and
\* the call has ended without an outcome; a call that fails there fails
\* with the timeout; and when the process was the agent run of implement,
\* no exit code has been received from it and no status, diff, add or
\* commit subcommand has been spawned.
C8_TimeoutKillsAndFails ==
    proc.wait = "timeout" =>
        /\ proc.state = "killed"
        /\ CallEnded
        /\ ~Outcome
        /\ result.kind = "error" => result.exc = "TimeoutError"
        /\ (IsImplement /\ spawned[Len(spawned)].cmd = "auggie") =>
              /\ result.kind = "error"
              /\ code = <<>>
              /\ Cmds \cap {"git status", "git diff", "git add", "git commit"} = {}

\* the agent run of an implement call has timed out
C8_Witness ==
    /\ IsImplement /\ pc = "done"
    /\ proc.wait = "timeout"
    /\ spawned[Len(spawned)].cmd = "auggie"

\* t is s without its leading and trailing whitespace
IsTrimOf(t, s) ==
    /\ t = <<>> \/ (~IsSpace(t[1]) /\ ~IsSpace(t[Len(t)]))
    /\ \E i \in 0 .. Len(s) :
        /\ i + Len(t) <= Len(s)
        /\ SubSeq(s, i + 1, i + Len(t)) = t
        /\ \A j \in 1 .. Len(s) : (j <= i \/ j > i + Len(t)) => IsSpace(s[j])

\* C9: when the agent run of ask_question has ended with a non-zero exit
\* code the call has failed with "Auggie failed" and no outcome; an outcome
\* is returned only for exit code 0 and its answer is the trimmed stdout.
C9_AskFailsOnNonZero ==
    (IsAsk /\ pc = "done" /\ code # <<>>) =>
        /\ code[1] # 0 => (result.kind = "error" /\ result.exc = "RuntimeError"
                        /\ result.msg[1] = "Auggie failed")
        /\ Outcome => (code[1] = 0 /\ IsTrimOf(result.value.answer, out))

\* ask_question has returned an answer trimmed on both sides
C9_Witness ==
    /\ IsAsk /\ pc = "done" /\ Outcome
    /\ out = <<" ", "a", " ">>
    /\ result.value.answer = <<"a">>

\* the characters of the two status columns of `git status --porcelain`
PorcelainChars == {"M", "T", "A", "D", "R", "C", "U", "?", "!"}

\* a status code of two characters or fewer (after the blank of an empty
\* index column), whitespace, and a path
IsStatusLine(line) ==
    LET s1 == Drop(line, Span(line, Spaces))
        k  == Span(s1, PorcelainChars)
        s2 == Drop(s1, k)
        j  == Span(s2, Spaces)
    IN  k \in {1, 2} /\ j >= 1 /\ Len(s2) > j

PathOfLine(line) ==
    LET s1 == Drop(line, Span(line, Spaces))
        s2 == Drop(s1, Span(s1, PorcelainChars))
    IN  Drop(s2, Span(s2, Spaces))

RECURSIVE StatusPaths(_)
StatusPaths(lines) ==
    IF lines = <<>> THEN <<>>
    ELSE (IF IsStatusLine(Head(lines)) THEN <<PathOfLine(Head(lines))>> ELSE <<>>)
         \o StatusPaths(Tail(lines))

\* C10: files_changed is, in order, the path of every status line.  (A dry
\* run leaves the tree as the status subcommand saw it.)
C10_FilesChangedAreStatusPaths ==
    (IsImplement /\ call.dry_run /\ pc = "done" /\ Outcome) =>
        result.value.files_changed = StatusPaths(GitStatus(wt))

(***************************************************************************)
(* The commit message                                                      *)
(***************************************************************************)
\* the caller gave a message (a text that is not empty)
Supplied(cm) == cm # Nothing /\ cm[1] # <<>>

\* C11: the message handed to `git commit -m` is the message the caller
\* supplied, or else "Implement: " followed by the first 72 characters of
\* the prompt (all of it when it is shorter); the scope hint is no part of
\* it.
C11_CommitMessage ==
    \A i \in DOMAIN spawned :
        spawned[i].cmd = "git commit" =>
            LET m == spawned[i].arg
                n == IF Len(call.prompt) < 72 THEN Len(call.prompt) ELSE 72
            IN  /\ Supplied(call.commit_message) => m = call.commit_message[1]
                /\ ~Supplied(call.commit_message) =>
                      /\ Len(m) = n + 1
                      /\ m[1] = "Implement: "
                      /\ \A j \in 1 .. n : m[j + 1] = call.prompt[j]
                /\ \A j \in DOMAIN m : m[j] # "Scope: limit edits to "

\* a commit of a call with a scope, no message and a prompt longer than 72
\* characters that starts with a blank
C11_Witness ==
    /\ pc = "impl_commit"
    /\ call.commit_message = Nothing
    /\ call.scope # <<>>
    /\ Len(call.prompt) > 72
    /\ call.prompt[1] = " "
    /\ Len(spawned[Len(spawned)].arg) = 73

(***************************************************************************)
(* The steps of one implement call                                         *)
(***************************************************************************)
\* the place of each external step in the order of an implement call
Rank(cmd) ==
    CASE cmd = "node -v" -> 1
      [] cmd = "auggie --version" -> 2
      [] cmd = "git checkout" -> 3
      [] cmd = "auggie" -> 4
      [] cmd = "git status" -> 5
      [] cmd = "git diff" -> 6
      [] cmd = "git add" -> 7
      [] cmd = "git commit" -> 8
      [] cmd = "git rev-parse" -> 9

EndedOk(e) == e.end.kind = "exit" /\ e.end.code = 0
LastSpawned == spawned[Len(spawned)]

\* C12: the processes of an implement call are spawned in the order node,
\* auggie --version, checkout, agent, status, diff, add, commit, rev-parse,
\* each at most once; a process is spawned only when every process before
\* it has exited with code 0 (so nothing is run again after a failure or a
\* timeout); the checkout is spawned only with a branch and always with
\* one, the diff only with a non-empty list of paths; and no step other
\* than these two is skipped.
C12_StepsInOrder ==
    IsImplement =>
        /\ \A i, j \in DOMAIN spawned : i < j => Rank(spawned[i].cmd) < Rank(spawned[j].cmd)
        /\ \A i \in DOMAIN spawned : i < Len(spawned) => EndedOk(spawned[i])
        /\ "git checkout" \in Cmds => call.branch # None
        /\ ("auggie" \in Cmds /\ call.branch # None) => "git checkout" \in Cmds
        /\ "git diff" \in Cmds => files_changed # <<>>
        /\ \A i \in DOMAIN spawned :
              i > 1 =>
                  LET prev == Rank(spawned[i - 1].cmd)
                      this == Rank(spawned[i].cmd)
                  IN  \/ this = prev + 1
                      \/ this = prev + 2 /\ spawned[i].cmd = "auggie"

\* a call with a branch has gone through all nine steps and returned
C12_Witness ==
    /\ IsImplement /\ pc = "done" /\ Outcome
    /\ Len(spawned) = 9
    /\ LastSpawned.cmd = "git rev-parse"

\* C13: when the checkout, the agent run or a later git subcommand of an
\* implement call has exited with a non-zero code, the call has failed
\* without an outcome and that process is the last one it spawned; when the
\* process was `git commit`, HEAD has not moved and what `git add -A`
\* staged is still staged.
C13_FailFastNoRollback ==
    IsImplement =>
        \A i \in DOMAIN spawned :
            (spawned[i].cmd \in TaskCmds /\ spawned[i].end.kind = "exit"
                                         /\ spawned[i].end.code # 0) =>
                /\ i = Len(spawned)
                /\ pc = "done"
                /\ result.kind = "error"
                /\ result.exc = "RuntimeError"
                /\ spawned[i].cmd = "git commit" =>
                      /\ head = before.head
                      /\ HasStaged(wt)
                      /\ wt = StageAll(wt)

\* `git commit` has failed after `git add -A` staged a change
C13_Witness ==
    /\ IsImplement /\ pc = "done"
    /\ LastSpawned.cmd = "git commit"
    /\ LastSpawned.end = [kind |-> "exit", code |-> 1]
    /\ wt[TrackedFile] = <<"M", " ">>

CommitCmds == {"git add", "git commit", "git rev-parse"}

\* the change set has been collected: status has exited with 0 and so has
\* the diff, if one was spawned
Collected ==
    /\ \E i \in DOMAIN spawned : spawned[i].cmd = "git status" /\ EndedOk(spawned[i])
    /\ \A i \in DOMAIN spawned : spawned[i].cmd = "git diff" => EndedOk(spawned[i])

\* C14: in an implement call that is no dry run, add / commit / rev-parse
\* are spawned only with a non-empty files_changed, and `git add` is
\* spawned once a non-empty change set has been collected; an outcome has
\* committed = true exactly when its files_changed is non-empty, and then
\* all three were spawned.
C14_CommitIffChanges ==
    (IsImplement /\ ~call.dry_run) =>
        /\ Cmds \cap CommitCmds # {} => files_changed # <<>>
        /\ (Collected /\ files_changed # <<>>) => "git add" \in Cmds
        /\ Outcome =>
              /\ result.value.committed <=> (result.value.files_changed # <<>>)
              /\ result.value.committed => CommitCmds \subseteq Cmds
              /\ ~result.value.committed => Cmds \cap CommitCmds = {}

\* a call that is no dry run has returned with nothing changed
C14_Witness ==
    /\ IsImplement /\ ~call.dry_run /\ pc = "done" /\ Outcome
    /\ result.value.files_changed = <<>>
    /\ ~result.value.committed
    /\ LastSpawned.cmd = "git status"

\* C15: once a dry-run implement call has spawned the agent, the settings
\* artifact exists and denies save-file, str-replace-editor, remove-files
\* and launch-process, and the agent was spawned with the cache directory
\* of the call's workspace in its environment; a call that is no dry run
\* leaves the settings artifact as it was.
C15_SandboxBeforeSpawn ==
    IsImplement =>
        /\ call.dry_run =>
              \A i \in DOMAIN spawned :
                  spawned[i].cmd = "auggie" =>
                      /\ settings # <<>>
                      /\ settings[1] =
                            {[tool |-> "save-file", permission |-> "deny"],
                             [tool |-> "str-replace-editor", permission |-> "deny"],
                             [tool |-> "remove-files", permission |-> "deny"],
                             [tool |-> "launch-process", permission |-> "deny"]}
                      /\ spawned[i].cache # NoDir
                      /\ spawned[i].cache =
                            <<ResolveRoot(call.workspace_root), ".augment", ".mcp-temp">>
        /\ ~call.dry_run => settings = before.settings

\* the agent of the first dry run is running; the artifact did not exist
\* when the call was dispatched
C15_Witness ==
    /\ IsImplement /\ call.dry_run /\ pc = "impl_agent"
    /\ before.settings = <<>>
    /\ settings # <<>>
    /\ LastSpawned.cache = <<"W", ".augment", ".mcp-temp">>

(***************************************************************************)
(* Termination                                                             *)
(***************************************************************************)
InFlight == pc \notin {"idle", "done", "exited"}

\* the timeout each wait is bounded by
WaitBounds ==
    \A i \in DOMAIN spawned :
        spawned[i].timeout =
            CASE spawned[i].cmd \in {"node -v", "auggie --version"} -> 5
              [] spawned[i].cmd = "auggie" -> call.timeout_sec
              [] OTHER -> 60

\* a wait that was given up has left the process killed
KilledWhenGivenUp ==
    (spawned # <<>> /\ LastSpawned.end.kind = "timeout") => proc.state = "killed"

\* C16: every call in flight ends, also when a process it spawned hangs:
\* each wait carries its timeout (5 for a probe, the call's timeout_sec for
\* the agent, 60 for a git subcommand), and a wait that was given up has
\* left the process killed.
C16_EveryCallEnds ==
    /\ []WaitBounds
    /\ []KilledWhenGivenUp
    /\ InFlight ~> CallEnded

\* the wait for `git commit` was given up after 60 seconds and the call
\* has ended
C16_Witness ==
    /\ IsImplement /\ pc = "done"
    /\ LastSpawned.cmd = "git commit"
    /\ LastSpawned.timeout = 60
    /\ LastSpawned.end.kind = "timeout"
    /\ proc.state = "killed"

(***************************************************************************)
(* Preflight across calls                                                  *)
(***************************************************************************)
Probes == {"node -v", "auggie --version"}

\* C17 as claimed: no probe is spawned while no call has been made, and a
\* call made after the preflight of an earlier call has passed spawns no
\* probe.
C17_PreflightCached ==
    /\ pc = "idle" => spawned = <<>>
    /\ preflighted => Cmds \cap Probes = {}

\* C17 as amended: no probe is spawned while no call is in flight; every
\* call, the first and each later one, spawns `node -v` first, and has
\* spawned the agent or a git subcommand only after `node -v` and then
\* `auggie --version` have exited with code 0.
C17_PreflightEveryCall ==
    /\ pc = "idle" => spawned = <<>>
    /\ spawned # <<>> => spawned[1].cmd = "node -v"
    /\ Cmds \cap TaskCmds # {} =>
          /\ spawned[1].cmd = "node -v" /\ EndedOk(spawned[1])
          /\ spawned[2].cmd = "auggie --version" /\ EndedOk(spawned[2])

\* a call made after an earlier call's preflight had passed has run both
\* probes again and gone on to the agent
C17_Witness ==
    /\ preflighted
    /\ "auggie" \in Cmds
    /\ spawned[1].cmd = "node -v"
    /\ spawned[2].cmd = "auggie --version"

(***************************************************************************)
(* What a call reports and what it commits                                 *)
(***************************************************************************)
\* C18: a call dispatched on a clean tree whose agent run changed nothing
\* returns an empty files_changed and committed = false, and the settings
\* artifact is in no commit.
C18_ChangeSetOnlyAgentChanges ==
    /\ (IsImplement /\ Outcome /\ ~mutated /\ \A p \in Paths : before.wt[p] = Clean) =>
          /\ result.value.files_changed = <<>>
          /\ ~result.value.committed
    /\ ArtifactFile \notin inHead

\* C19: when an implement call has ended and HEAD has moved since its
\* dispatch, the call has returned an outcome with committed = true and the
\* name of the new commit.
C19_NoSilentCommit ==
    (IsImplement /\ pc = "done" /\ head # before.head) =>
        /\ Outcome
        /\ result.value.committed
        /\ result.value.commit_sha = [i \in 1 .. head |-> "c"]

(***************************************************************************)
(* Concurrent calls                                                        *)
(***************************************************************************)
\* C20: the agent of a dry-run call was spawned with the cache directory of
\* the call's own workspace.
C20_OwnCacheDir ==
    \A i \in DOMAIN tasks :
        (tasks[i].pc = "agent" /\ tasks[i].dry_run) =>
            tasks[i].cache = <<tasks[i].root, ".augment", ".mcp-temp">>

====
